---- MODULE Spec2Model ----
(***************************************************************************)
(* Cell widgets of src/cells/widget.ts: BaseCellWidget, CodeCellWidget,    *)
(* MarkdownCellWidget and RawCellWidget, bound to a cell model and driven  *)
(* by the model's stateChanged signal and by posted update-request         *)
(* messages.                                                               *)
(***************************************************************************)
EXTENDS Integers, Sequences, FiniteSets, TLC

\* ------------------------------------------------------------------ bounds
\* Number of model change notifications in a behaviour.
MaxNotify == 3
\* Number of edits of the input text in a behaviour.
MaxEdits == 1
\* Length, in tokens, of the texts the render pipeline is checked on.
MaxMathLen == 4

\* --------------------------------------------------------------- constants
CELL_CLASS == "jp-Cell"
SELECTED_CLASS == "jp-mod-selected"
MARKED_CLASS == "jp-mod-marked"
CODE_CELL_CLASS == "jp-CodeCell"
MARKDOWN_CELL_CLASS == "jp-MarkdownCell"
RAW_CELL_CLASS == "jp-RawCell"
RENDERED_CLASS == "jp-mod-rendered"
FOCUSED_CLASS == "jp-mod-focused"

\* The message update() posts to the widget.
MsgUpdateRequest == "update-request"

\* The three widget classes.
Kinds == {"code", "markdown", "raw"}

\* The facets of a cell model; only a markdown cell model has `rendered`.
BaseFacets == {"selected", "marked", "focused"}
FacetNames(k) == IF k = "markdown" THEN BaseFacets \cup {"rendered"} ELSE BaseFacets

\* Input text: a sequence of tokens, prose words and math expressions.
ProseTokens == {"a"}
MathTokens == {"$x$", "$$y$$"}
Tokens == ProseTokens \cup MathTokens
Texts == {<<"a">>, <<"$x$">>, <<"a", "$x$">>}
\* Every text of up to MaxMathLen tokens.
MathTexts == UNION {[1..n -> Tokens] : n \in 0..MaxMathLen}

Range(s) == {s[i] : i \in 1..Len(s)}

\* ---------------------------------------------------------- render pipeline
\* The placeholder removeMath leaves for the i-th (0-based) math expression.
Placeholders == <<"@@0@@", "@@1@@", "@@2@@", "@@3@@", "@@4@@", "@@5@@">>
Placeholder(i) == Placeholders[i + 1]
PlaceholderIndex(tok) == CHOOSE i \in 0..(Len(Placeholders) - 1) : Placeholder(i) = tok
IsPlaceholder(tok) == \E i \in 0..(Len(Placeholders) - 1) : Placeholder(i) = tok

\* removeMath(text): the text with every math expression replaced by a
\* placeholder, and the expressions in order of appearance.
RECURSIVE removeMath(_)
removeMath(t) ==
  IF t = <<>> THEN [text |-> <<>>, math |-> <<>>]
  ELSE LET n      == Len(t)
           before == removeMath(SubSeq(t, 1, n - 1))
       IN IF t[n] \in MathTokens
          THEN [text |-> Append(before.text, Placeholder(Len(before.math))),
                math |-> Append(before.math, t[n])]
          ELSE [text |-> Append(before.text, t[n]), math |-> before.math]

\* marked(text): the markdown converter; prose is wrapped in a paragraph.
marked(t) == IF t = <<>> THEN <<>> ELSE <<"<p>">> \o t \o <<"</p>">>

\* replaceMath(html, math): every placeholder replaced by its expression.
replaceMath(h, math) ==
  [i \in 1..Len(h) |->
     IF IsPlaceholder(h[i]) /\ PlaceholderIndex(h[i]) < Len(math)
     THEN math[PlaceholderIndex(h[i]) + 1]
     ELSE h[i]]

\* The pipeline writing the converter's output as it is, without replaceMath.
Render_NoRestore(t) == marked(removeMath(t).text)

\* The content the pipeline of onUpdateRequest writes for a text.
Render(t) == LET data == removeMath(t) IN replaceMath(marked(data.text), data.math)

\* ------------------------------------------------------------------- state
VARIABLES
  kind,          \* which widget class the view is
  facets,        \* the model: selected, marked, focused, rendered
  text,          \* the model: input.textEditor.text
  classes,       \* the widget's class list
  layout,        \* the children of the widget's layout, in order
  html,          \* rendered.node.innerHTML
  dirty,         \* MarkdownCellWidget._dirty
  queue,         \* the posted messages not yet delivered to the widget
  focusCount,    \* calls of input.editor.focus()
  renderCount,   \* runs of the render pipeline
  updateCount,   \* update-request messages delivered
  nNotify,       \* notifications so far
  nEdit,         \* text edits so far
  notified,      \* a notification has arrived since the queue was last drained
  transCount,    \* rendered-facet transitions false -> true so far
  initRendered,  \* the rendered facet at construction
  rendNotif,     \* a rendered notification (or construction) not yet drained
  coalesced,     \* two rendered notifications were drained together
  editState,     \* "pending": text edited while rendered was false and not
                 \* yet followed by an update in rendered mode; "served":
                 \* the last step was that update
  drained,       \* the last step was a drain of the queue
  renderedEdit   \* the text was edited while rendered was true and the
                 \* content was the render of the text, with no rendered
                 \* notification since: "clean" if dirty was false at that
                 \* edit, "dirty" if it was true

vars == <<kind, facets, text, classes, layout, html, dirty, queue, focusCount,
          renderCount, updateCount, nNotify, nEdit, notified, transCount,
          initRendered, rendNotif, coalesced, editState, drained,
          renderedEdit>>

\* The widget's own state, as the handlers read and write it.
Widget == [classes |-> classes, layout |-> layout, html |-> html, dirty |-> dirty,
           queue |-> queue, focusCount |-> focusCount,
           renderCount |-> renderCount, updateCount |-> updateCount]

\* The model, as the handlers read it.
Model == [selected |-> facets.selected, marked |-> facets.marked,
          focused |-> facets.focused, rendered |-> facets.rendered, text |-> text]

\* ------------------------------------------------------- library operations
\* Widget.addClass / Widget.removeClass.
addClass(w, c) == [w EXCEPT !.classes = @ \cup {c}]
removeClass(w, c) == [w EXCEPT !.classes = @ \ {c}]

\* Widget.update(): post an update-request; a posted update-request that is
\* still undelivered absorbs the new one.
update(w) ==
  [w EXCEPT !.queue = IF MsgUpdateRequest \in Range(@) THEN @
                      ELSE Append(@, MsgUpdateRequest)]

\* The sequence s without its element at position i (1-based).
RemoveAt(s, i) == SubSeq(s, 1, i - 1) \o SubSeq(s, i + 1, Len(s))
\* The sequence s with x put at position i (1-based).
InsertAt(s, i, x) == SubSeq(s, 1, i - 1) \o <<x>> \o SubSeq(s, i, Len(s))
IndexOf(s, x) == CHOOSE i \in 1..Len(s) : s[i] = x
Min(a, b) == IF a < b THEN a ELSE b
Max(a, b) == IF a > b THEN a ELSE b

\* PanelLayout.insertChild(index, child), index 0-based: a child of the
\* layout is moved to the index, any other widget is inserted there.
insertChild(l, index, child) ==
  LET n == Len(l)
      j == Max(0, Min(index, n))
  IN IF child \in Range(l)
     THEN LET jj == IF j = n THEN j - 1 ELSE j
          IN InsertAt(RemoveAt(l, IndexOf(l, child)), jj + 1, child)
     ELSE InsertAt(l, j + 1, child)

\* PanelLayout.addChild(child).
addChild(l, child) == insertChild(l, Len(l), child)

\* ------------------------------------------------------------ constructors
\* new Widget(), before any subclass constructor has run.
NewWidget == [classes |-> {}, layout |-> <<>>, html |-> <<>>, dirty |-> FALSE,
              queue |-> <<>>, focusCount |-> 0, renderCount |-> 0,
              updateCount |-> 0]

\* BaseCellWidget.constructor.
BaseConstructor == addClass(NewWidget, CELL_CLASS)

\* The constructor adding the output widget before the input widget.
CodeConstructor_OutputFirst ==
  LET w == addClass(BaseConstructor, CODE_CELL_CLASS)
  IN [w EXCEPT !.layout = addChild(addChild(<<>>, "output"), "input")]

\* CodeCellWidget.constructor.
CodeConstructor ==
  LET w == addClass(BaseConstructor, CODE_CELL_CLASS)
  IN [w EXCEPT !.layout = addChild(addChild(<<>>, "input"), "output")]

\* _dirty initialized to false.
InitDirty_False == FALSE

\* The initializer of MarkdownCellWidget._dirty.
InitDirty == TRUE

\* The constructor without its closing update() call.
MarkdownConstructor_NoUpdate ==
  LET w0 == [BaseConstructor EXCEPT !.dirty = InitDirty]
      w1 == addClass(w0, MARKDOWN_CELL_CLASS)
  IN [w1 EXCEPT !.layout = addChild(addChild(<<>>, "input"), "rendered")]

\* The constructor without the second addChild: the rendered widget is
\* left out of the layout until an update inserts it.
MarkdownConstructor_OneChild ==
  LET w0 == [BaseConstructor EXCEPT !.dirty = InitDirty]
      w1 == addClass(w0, MARKDOWN_CELL_CLASS)
      w2 == [w1 EXCEPT !.layout = addChild(<<>>, "input")]
  IN update(w2)

\* MarkdownCellWidget.constructor.
MarkdownConstructor ==
  LET w0 == [BaseConstructor EXCEPT !.dirty = InitDirty]
      w1 == addClass(w0, MARKDOWN_CELL_CLASS)
      w2 == [w1 EXCEPT !.layout = addChild(addChild(<<>>, "input"), "rendered")]
  IN update(w2)

\* RawCellWidget.constructor.
RawConstructor ==
  LET w == addClass(BaseConstructor, RAW_CELL_CLASS)
  IN [w EXCEPT !.layout = addChild(<<>>, "input")]

Construct(k) ==
  CASE k = "code" -> CodeConstructor
    [] k = "markdown" -> MarkdownConstructor
    [] k = "raw" -> RawConstructor

\* ---------------------------------------------------------------- handlers
\* addClass when the facet is set, removeClass when it is not.
SetClass(w, c, on) == IF on THEN addClass(w, c) ELSE removeClass(w, c)

\* onUpdateRequest without the else branches: a class is added, never removed.
BaseOnUpdateRequest_NoRemove(w, m) ==
  LET s1 == IF m.selected THEN addClass(w, SELECTED_CLASS) ELSE w
      s2 == IF m.marked THEN addClass(s1, MARKED_CLASS) ELSE s1
  IN IF m.focused THEN addClass(s2, FOCUSED_CLASS) ELSE s2

\* BaseCellWidget.onUpdateRequest.
BaseOnUpdateRequest(w, m) ==
  SetClass(SetClass(SetClass(w, SELECTED_CLASS, m.selected),
                    MARKED_CLASS, m.marked),
           FOCUSED_CLASS, m.focused)

\* The pipeline run on every update in rendered mode, dirty or not.
RenderIfDirty_Always(w, m) ==
  [w EXCEPT !.html = Render(m.text), !.renderCount = @ + 1]

\* onUpdateRequest, the block under `if (this._dirty)`: removeMath, marked,
\* replaceMath into rendered.node.innerHTML, typeset.
RenderIfDirty(w, m) ==
  IF w.dirty
  THEN [w EXCEPT !.html = Render(m.text), !.renderCount = @ + 1]
  ELSE w

\* onUpdateRequest, rendered mode: the rendered widget goes to index 1 and
\* the rendered class is added.
ShowRendered(w) ==
  addClass([w EXCEPT !.layout = insertChild(@, 1, "rendered")], RENDERED_CLASS)

\* The else branch without its insertChild: the class is removed and the
\* layout is left as it is.
ShowInput_NoSwap(w) == removeClass(w, RENDERED_CLASS)

\* onUpdateRequest, editing mode: the input widget goes to index 1 and the
\* rendered class is removed.
ShowInput(w) ==
  removeClass([w EXCEPT !.layout = insertChild(@, 1, "input")], RENDERED_CLASS)

\* onUpdateRequest, `this._dirty = false` left out.
ClearDirty_Never(w) == w

\* onUpdateRequest, `this._dirty = false`.
ClearDirty(w) == [w EXCEPT !.dirty = FALSE]

\* onUpdateRequest without the call of super.onUpdateRequest.
MarkdownOnUpdateRequest_NoSuper(w, m) ==
  LET w1 == IF m.rendered
            THEN ShowRendered(RenderIfDirty(w, m))
            ELSE ShowInput(w)
  IN ClearDirty(w1)

\* MarkdownCellWidget.onUpdateRequest.
MarkdownOnUpdateRequest(w, m) ==
  LET w1 == IF m.rendered
            THEN ShowRendered(RenderIfDirty(w, m))
            ELSE ShowInput(w)
  IN BaseOnUpdateRequest(ClearDirty(w1), m)

\* Delivery of one update-request message to the widget.
onUpdateRequest(k, w, m) ==
  LET d == [w EXCEPT !.updateCount = @ + 1]
  IN IF k = "markdown" THEN MarkdownOnUpdateRequest(d, m)
     ELSE BaseOnUpdateRequest(d, m)

\* onModelChanged adding the focused class itself, next to the focus() call.
BaseOnModelChanged_FocusClass(w, name, newValue) ==
  LET u == update(w)
  IN IF name = "focused" /\ newValue
     THEN addClass([u EXCEPT !.focusCount = @ + 1], FOCUSED_CLASS)
     ELSE u

\* onModelChanged without the update() call.
BaseOnModelChanged_NoUpdate(w, name, newValue) ==
  IF name = "focused" /\ newValue
  THEN [w EXCEPT !.focusCount = @ + 1]
  ELSE w

\* onModelChanged with the test of args.newValue left out.
BaseOnModelChanged_FocusAny(w, name, newValue) ==
  LET u == update(w)
  IN IF name = "focused"
     THEN [u EXCEPT !.focusCount = @ + 1]
     ELSE u

\* onModelChanged without the focus() call.
BaseOnModelChanged_NoFocus(w, name, newValue) == update(w)

\* BaseCellWidget.onModelChanged.
BaseOnModelChanged(w, name, newValue) ==
  LET u == update(w)
  IN IF name = "focused" /\ newValue
     THEN [u EXCEPT !.focusCount = @ + 1]
     ELSE u

\* onModelChanged setting _dirty outside the switch, on every notification.
MarkdownOnModelChanged_DirtyOnAny(w, name, newValue) ==
  LET b == [BaseOnModelChanged(w, name, newValue) EXCEPT !.dirty = TRUE]
  IN IF name = "rendered" THEN update(b) ELSE b

\* onModelChanged without `this._dirty = true`.
MarkdownOnModelChanged_NoDirty(w, name, newValue) ==
  LET b == BaseOnModelChanged(w, name, newValue)
  IN IF name = "rendered" THEN update(b) ELSE b

\* MarkdownCellWidget.onModelChanged.
MarkdownOnModelChanged(w, name, newValue) ==
  LET b == BaseOnModelChanged(w, name, newValue)
  IN IF name = "rendered"
     THEN update([b EXCEPT !.dirty = TRUE])
     ELSE b

\* The slot connected to model.stateChanged.
onModelChanged(k, w, name, newValue) ==
  IF k = "markdown" THEN MarkdownOnModelChanged(w, name, newValue)
  ELSE BaseOnModelChanged(w, name, newValue)

\* The message loop delivering the first n posted messages, in order.
RECURSIVE Deliver(_, _, _, _)
Deliver(k, w, m, n) ==
  IF n = 0 THEN w ELSE onUpdateRequest(k, Deliver(k, w, m, n - 1), m)

\* ----------------------------------------------------------------- actions
\* The cell model changing one facet: the facets after the change. The model
\* emits stateChanged once per change, with the facet's name and new value.
stateChanged(f, name) == [f EXCEPT ![name] = ~f[name]]

\* Assign the widget's state from a record of it.
SetWidget(w) ==
  /\ classes' = w.classes
  /\ layout' = w.layout
  /\ html' = w.html
  /\ dirty' = w.dirty
  /\ queue' = w.queue
  /\ focusCount' = w.focusCount
  /\ renderCount' = w.renderCount
  /\ updateCount' = w.updateCount

\* A view constructed on a model with any facet values and any text.
Init ==
  /\ kind \in Kinds
  /\ facets \in [FacetNames("markdown") -> BOOLEAN]
  /\ (kind # "markdown" => ~facets.rendered)
  /\ text \in Texts
  /\ LET w == Construct(kind)
     IN /\ classes = w.classes
        /\ layout = w.layout
        /\ html = w.html
        /\ dirty = w.dirty
        /\ queue = w.queue
        /\ focusCount = w.focusCount
        /\ renderCount = w.renderCount
        /\ updateCount = w.updateCount
  /\ nNotify = 0
  /\ nEdit = 0
  /\ notified = FALSE
  /\ transCount = 0
  /\ initRendered = facets.rendered
  /\ rendNotif = (kind = "markdown")
  /\ coalesced = FALSE
  /\ editState = "none"
  /\ drained = FALSE
  /\ renderedEdit = "none"

\* The model changes one facet and emits stateChanged with the facet's name
\* and new value; the connected slot runs to completion.
Notify(name) ==
  /\ nNotify < MaxNotify
  /\ name \in FacetNames(kind)
  /\ LET newValue == stateChanged(facets, name)[name]
     IN /\ facets' = stateChanged(facets, name)
        /\ SetWidget(onModelChanged(kind, Widget, name, newValue))
        /\ transCount' = IF name = "rendered" /\ newValue
                         THEN transCount + 1 ELSE transCount
        /\ rendNotif' = (rendNotif \/ name = "rendered")
        /\ coalesced' = (coalesced \/ (name = "rendered" /\ rendNotif))
  /\ nNotify' = nNotify + 1
  /\ notified' = TRUE
  /\ drained' = FALSE
  /\ editState' = IF editState = "served" THEN "none" ELSE editState
  /\ renderedEdit' = IF name = "rendered" THEN "none" ELSE renderedEdit
  /\ UNCHANGED <<kind, text, nEdit, initRendered>>

\* The editor changes the input text; the cell model emits nothing.
EditText(t) ==
  /\ nEdit < MaxEdits
  /\ t \in Texts
  /\ t # text
  /\ text' = t
  /\ nEdit' = nEdit + 1
  /\ editState' = IF ~facets.rendered THEN "pending"
                  ELSE IF editState = "served" THEN "none" ELSE editState
  /\ drained' = FALSE
  /\ renderedEdit' = IF kind = "markdown" /\ facets.rendered /\ html = Render(text)
                     THEN (IF dirty THEN "dirty" ELSE "clean")
                     ELSE renderedEdit
  /\ UNCHANGED <<kind, facets, classes, layout, html, dirty, queue, focusCount,
                 renderCount, updateCount, nNotify, notified, transCount,
                 initRendered, rendNotif, coalesced>>

\* The message loop drains the queue: every posted message is delivered.
Drain ==
  /\ queue # <<>>
  /\ SetWidget(Deliver(kind, [Widget EXCEPT !.queue = <<>>], Model, Len(queue)))
  /\ notified' = FALSE
  /\ rendNotif' = FALSE
  /\ editState' = IF kind = "markdown" /\ facets.rendered
                  THEN (IF editState = "pending" THEN "served" ELSE "none")
                  ELSE IF editState = "served" THEN "none" ELSE editState
  /\ drained' = TRUE
  /\ UNCHANGED <<kind, facets, text, nNotify, nEdit, transCount, initRendered,
                 coalesced, renderedEdit>>

Next ==
  \/ \E name \in FacetNames("markdown") : Notify(name)
  \/ \E t \in Texts : EditText(t)
  \/ Drain

Spec == Init /\ [][Next]_vars

\* A markdown view in rendered mode constructed on any text of MathTexts; its
\* first update runs the render pipeline on that text.
MathInit ==
  /\ kind = "markdown"
  /\ facets = [n \in FacetNames("markdown") |-> n = "rendered"]
  /\ text \in MathTexts
  /\ LET w == Construct(kind)
     IN /\ classes = w.classes
        /\ layout = w.layout
        /\ html = w.html
        /\ dirty = w.dirty
        /\ queue = w.queue
        /\ focusCount = w.focusCount
        /\ renderCount = w.renderCount
        /\ updateCount = w.updateCount
  /\ nNotify = 0
  /\ nEdit = 0
  /\ notified = FALSE
  /\ transCount = 0
  /\ initRendered = facets.rendered
  /\ rendNotif = TRUE
  /\ coalesced = FALSE
  /\ editState = "none"
  /\ drained = FALSE
  /\ renderedEdit = "none"
MathNext == Drain
MathSpec == MathInit /\ [][MathNext]_vars

\* The view under a message loop that runs whenever a message is posted: a
\* drain that stays possible is eventually taken. The text is left alone.
FairInit == Init /\ text = <<"a">>
FairNext ==
  \/ \E name \in FacetNames("markdown") : Notify(name)
  \/ Drain
FairSpec == FairInit /\ [][FairNext]_vars /\ WF_vars(Drain)

\* ------------------------------------------------------------------ claims
\* The visual flags among the widget's classes.
BaseFlagClasses == {SELECTED_CLASS, MARKED_CLASS, FOCUSED_CLASS}
Flags == classes \cap (BaseFlagClasses \cup {RENDERED_CLASS})

\* The flags that the facets f of a model of kind k call for.
BaseFacetFlags(f) ==
  {c \in BaseFlagClasses : \/ (c = SELECTED_CLASS /\ f.selected)
                           \/ (c = MARKED_CLASS /\ f.marked)
                           \/ (c = FOCUSED_CLASS /\ f.focused)}
FacetFlags(f, k) ==
  BaseFacetFlags(f) \cup (IF k = "markdown" /\ f.rendered THEN {RENDERED_CLASS} ELSE {})

\* C1: when one or more notifications have arrived since the last drain, the
\* next drain applies exactly one update, and the flags after it are those of
\* the model's facets at the drain.
C1_OneUpdatePerBatch ==
  [][(notified /\ drained') =>
       /\ updateCount' = updateCount + 1
       /\ queue' = <<>>
       /\ Flags' = FacetFlags(facets, kind)]_vars

\* Two or more notifications, rendered set and cleared among them, drained
\* together by the only update so far; the rendered facet was true only in
\* between and the rendered class never appeared.
C1_Witness ==
  /\ kind = "markdown" /\ drained /\ updateCount = 1
  /\ nNotify >= 2 /\ transCount = 1 /\ ~facets.rendered
  /\ RENDERED_CLASS \notin classes

\* C2: directly after an update the selected, marked and focused flags that
\* are set are exactly those whose facet is true.
C2_BaseFlagsMatch ==
  drained => classes \cap BaseFlagClasses = BaseFacetFlags(facets)

\* A second update that found selected and focused true and marked false, one
\* facet having changed since the first update.
C2_Witness ==
  /\ kind = "markdown" /\ drained /\ updateCount = 2 /\ nNotify = 1
  /\ facets.selected /\ ~facets.marked /\ facets.focused
  /\ classes \cap BaseFlagClasses = {SELECTED_CLASS, FOCUSED_CLASS}

\* C3: the step in which the focused facet becomes true calls focus() once,
\* applies no update and leaves the update it scheduled pending.
C3_FocusBeforeUpdate ==
  [][(~facets.focused /\ facets'.focused) =>
       /\ focusCount' = focusCount + 1
       /\ updateCount' = updateCount
       /\ MsgUpdateRequest \in Range(queue')]_vars

\* A code cell whose only notification set focused: focus() has been called
\* and the update that notification scheduled is still to be applied.
C3_Witness ==
  /\ kind = "code" /\ nNotify = 1 /\ facets.focused /\ focusCount = 1
  /\ updateCount = 0 /\ queue = <<MsgUpdateRequest>>
  /\ FOCUSED_CLASS \notin classes

\* C4 as stated: for a markdown view constructed in editing mode, with no text
\* change and no update pending, the renders so far are as many as the
\* transitions of the rendered facet to true.
C4_Original ==
  (kind = "markdown" /\ ~initRendered /\ nEdit = 0 /\ queue = <<>>) =>
    renderCount = transCount

\* One render owed to construction when the model was rendered then.
InitialRender == IF initRendered THEN 1 ELSE 0

\* C4, amended: the renders never exceed the transitions of the rendered facet
\* to true (plus one for a view constructed on a rendered model), and are as
\* many once no update is pending, provided an update was applied between every
\* two rendered notifications and between construction and the first.
C4_RenderPerTransition ==
  kind = "markdown" =>
    /\ renderCount <= transCount + InitialRender
    /\ (~coalesced /\ queue = <<>>) => renderCount = transCount + InitialRender

\* Two separately drained entries into rendered mode, each rendered once.
C4_Witness ==
  /\ kind = "markdown" /\ ~initRendered /\ ~coalesced /\ queue = <<>>
  /\ transCount = 2 /\ renderCount = 2 /\ ~dirty

\* C5: the first update in rendered mode after a text edit made in editing
\* mode leaves the rendered content equal to the render of the current text.
C5_NoStaleRender ==
  (kind = "markdown" /\ editState = "served") => html = Render(text)

\* Such an update, replacing content rendered from the text before the edit.
C5_Witness ==
  /\ kind = "markdown" /\ editState = "served" /\ drained
  /\ nEdit >= 1 /\ renderCount = 2 /\ html = Render(text)

\* C6 as stated: the first update after construction runs the pipeline.
C6_Original ==
  (kind = "markdown" /\ drained /\ updateCount = 1) => renderCount = 1

\* C6, amended: the first update after construction runs the pipeline exactly
\* when the model's rendered facet is true at that update.
C6_FirstUpdateRenders ==
  (kind = "markdown" /\ drained /\ updateCount = 1) =>
    /\ renderCount = (IF facets.rendered THEN 1 ELSE 0)
    /\ html = (IF facets.rendered THEN Render(text) ELSE <<>>)

\* A first update in rendered mode, with no notification before it.
C6_Witness ==
  /\ kind = "markdown" /\ drained /\ updateCount = 1 /\ nNotify = 0
  /\ facets.rendered /\ renderCount = 1 /\ html = Render(text)

\* C7: directly after an update the rendered facet alone decides the display:
\* rendered class and rendered widget at index 1 when it is true, no rendered
\* class and input widget at index 1 when it is false.
C7_DisplayByRenderedFacet ==
  (kind = "markdown" /\ drained) =>
    /\ Len(layout) = 2
    /\ IF facets.rendered
       THEN RENDERED_CLASS \in classes /\ layout[2] = "rendered"
       ELSE RENDERED_CLASS \notin classes /\ layout[2] = "input"

\* Back in editing mode after a render, with other facets set.
C7_Witness ==
  /\ kind = "markdown" /\ drained /\ ~facets.rendered /\ facets.selected
  /\ renderCount >= 1 /\ layout = <<"rendered", "input">>
  /\ RENDERED_CLASS \notin classes

\* C8: an update applied in editing mode, or in rendered mode with dirty
\* false, changes neither the rendered content nor the count of renders.
C8_NoRenderUnlessDirty ==
  [][(kind = "markdown" /\ drained' /\ ~(facets.rendered /\ dirty)) =>
       (html' = html /\ renderCount' = renderCount)]_vars

\* A second update in rendered mode, with no rendered notification since
\* construction, that kept content rendered from an older text.
C8_Witness ==
  /\ kind = "markdown" /\ drained /\ facets.rendered /\ transCount = 0
  /\ initRendered /\ updateCount = 2 /\ renderCount = 1
  /\ nEdit = 1 /\ html # Render(text) /\ html # <<>>

\* C9 as stated: exactly one of the input and rendered widgets is a child of
\* the layout.
C9_Original ==
  kind = "markdown" =>
    Cardinality({c \in {"input", "rendered"} : c \in Range(layout)}) = 1

\* C9, amended: both widgets are children of the layout in every state, each
\* once, one at index 0 and the other at index 1.
C9_BothChildren ==
  kind = "markdown" =>
    layout \in {<<"input", "rendered">>, <<"rendered", "input">>}

\* An update in editing mode has moved the input widget to index 1.
C9_Witness ==
  kind = "markdown" /\ drained /\ layout = <<"rendered", "input">>

\* C10: with no update pending, every visual flag equals the current value of
\* its facet.
C10_FlagsCurrentUnlessPending ==
  queue = <<>> => Flags = FacetFlags(facets, kind)

\* C11: a step that handles a notification changes no class, no layout
\* order and no rendered content and applies no update; those change only in
\* a drain step.
C11_HandlerLeavesView ==
  [][/\ (nNotify' # nNotify) =>
          /\ classes' = classes /\ layout' = layout /\ html' = html
          /\ updateCount' = updateCount /\ renderCount' = renderCount
     /\ (classes' # classes \/ layout' # layout \/ html' # html) => drained']_vars

\* A rendered notification handled after the first update: the facet is
\* true and dirty is set, the class and the layout are still those of
\* editing mode.
C11_Witness ==
  /\ kind = "markdown" /\ ~drained /\ updateCount = 1 /\ nNotify = 1
  /\ facets.rendered /\ dirty /\ queue = <<MsgUpdateRequest>>
  /\ RENDERED_CLASS \notin classes /\ layout = <<"rendered", "input">>

\* C12: a scheduled update stays queued until a drain delivers it; under
\* fair draining every notification is followed by a drain after which no
\* update is pending and every flag equals its facet, and once the model has
\* stopped changing the view stays in such a state.
C12_UpdateNeverWithdrawn ==
  /\ [][(queue # <<>> /\ queue' = <<>>) =>
          (drained' /\ updateCount' = updateCount + 1)]_vars
  /\ notified ~> (drained /\ queue = <<>> /\ Flags = FacetFlags(facets, kind))
  /\ <>[](nNotify >= 1 => (queue = <<>> /\ Flags = FacetFlags(facets, kind)))

\* The model has changed as often as it will, the last update has been
\* applied and the flags are those of the facets.
C12_Witness ==
  /\ nNotify = MaxNotify /\ drained /\ queue = <<>> /\ updateCount >= 2
  /\ kind = "code" /\ facets.selected /\ Flags = FacetFlags(facets, kind)

\* C13: a code cell view keeps the layout [input, output] and a raw cell view
\* the layout [input]; neither ever has the rendered class, renders or holds
\* rendered content, and their classes other than the selected, marked and
\* focused flags stay those given at construction.
C13_CodeRawFixed ==
  /\ kind = "code" =>
       /\ layout = <<"input", "output">>
       /\ classes \ BaseFlagClasses = {CELL_CLASS, CODE_CELL_CLASS}
  /\ kind = "raw" =>
       /\ layout = <<"input">>
       /\ classes \ BaseFlagClasses = {CELL_CLASS, RAW_CELL_CLASS}
  /\ kind # "markdown" => (renderCount = 0 /\ html = <<>> /\ ~dirty)

\* A code cell after two updates, the last with flags set.
C13_Witness ==
  /\ kind = "code" /\ drained /\ updateCount = 2 /\ nNotify >= 2
  /\ classes = {CELL_CLASS, CODE_CELL_CLASS, SELECTED_CLASS, FOCUSED_CLASS}
  /\ layout = <<"input", "output">>

\* The math expressions of a text or of rendered content, in order.
MathOf(s) == SelectSeq(s, LAMBDA tok : tok \in MathTokens)

C15_Original ==
  kind = "markdown" => (dirty <=> html # Render(text))

\* C15, amended: dirty is true exactly when construction or a rendered
\* notification has happened since the last applied update; while it is
\* false, the rendered facet is true and the text has never been edited, the
\* rendered content is the render of the input text.
C15_DirtySinceUpdate ==
  kind = "markdown" =>
    /\ dirty <=> rendNotif
    /\ (~dirty /\ facets.rendered /\ nEdit = 0) => html = Render(text)

\* Dirty set again by a rendered notification while the content is still the
\* render of the text.
C15_Witness ==
  /\ kind = "markdown" /\ dirty /\ rendNotif /\ updateCount >= 1
  /\ renderCount >= 1 /\ html = Render(text) /\ ~drained

\* C16 as stated: a step clears dirty only by running the render pipeline,
\* and every run of the pipeline clears dirty.
C16_Original ==
  [][/\ (dirty /\ ~dirty') => renderCount' = renderCount + 1
     /\ (renderCount' # renderCount) => (dirty /\ ~dirty')]_vars

\* C16, amended: a step clears dirty only by applying an update, which runs
\* the pipeline exactly when the rendered facet is true; every run of the
\* pipeline clears dirty, and every applied update leaves it false.
C16_DirtyClearedByUpdate ==
  [][/\ (dirty /\ ~dirty') =>
          /\ drained' /\ updateCount' = updateCount + 1
          /\ renderCount' = renderCount + (IF facets.rendered THEN 1 ELSE 0)
     /\ (renderCount' # renderCount) => (dirty /\ ~dirty')
     /\ drained' => ~dirty']_vars

\* The first update, applied in editing mode: dirty cleared, nothing rendered.
C16_Witness ==
  /\ kind = "markdown" /\ drained /\ updateCount = 1 /\ ~facets.rendered
  /\ ~dirty /\ renderCount = 0 /\ html = <<>>

\* C18: for a markdown view dirty implies that an update is pending, and
\* directly after an applied update dirty is false.
C18_DirtyImpliesPending ==
  kind = "markdown" =>
    /\ dirty => MsgUpdateRequest \in Range(queue)
    /\ drained => ~dirty

\* Dirty set by a rendered notification after an update, the update it
\* scheduled pending.
C18_Witness ==
  /\ kind = "markdown" /\ dirty /\ updateCount >= 1 /\ nNotify >= 1
  /\ queue = <<MsgUpdateRequest>> /\ ~initRendered /\ facets.rendered

\* C19: focus() is called once in every step in which the focused facet
\* becomes true, and in no other step; it has not been called at construction.
C19_FocusExactly ==
  /\ (nNotify = 0 /\ updateCount = 0) => focusCount = 0
  /\ [][focusCount' = focusCount +
          (IF ~facets.focused /\ facets'.focused THEN 1 ELSE 0)]_vars

\* focused set and cleared again, another notification and an update applied
\* while focused was true: one call of focus().
C19_Witness ==
  /\ kind = "markdown" /\ focusCount = 1 /\ nNotify = 3 /\ ~facets.focused
  /\ drained /\ updateCount >= 2 /\ ~initRendered /\ facets.rendered

\* C17 as stated: once the text has been edited while the rendered facet was
\* true and the content was the render of the text, no update renders or
\* changes the rendered content until a rendered notification occurs.
C17_Original ==
  [][(kind = "markdown" /\ renderedEdit # "none" /\ drained') =>
       (renderCount' = renderCount /\ html' = html)]_vars

\* C17, amended: the same for an edit made while dirty was false, that is,
\* with no update owed to construction or to a rendered notification pending;
\* dirty then stays false until a rendered notification occurs.
C17_NoRerenderAfterEdit ==
  /\ [][(kind = "markdown" /\ renderedEdit = "clean" /\ drained') =>
          (renderCount' = renderCount /\ html' = html)]_vars
  /\ [](renderedEdit = "clean" => (~dirty /\ facets.rendered))

\* After such an edit, a notification of another facet and its update: the
\* content is still the render of the text before the edit.
C17_Witness ==
  /\ kind = "markdown" /\ renderedEdit = "clean" /\ drained /\ facets.rendered
  /\ nEdit = 1 /\ nNotify >= 1 /\ transCount = 0 /\ updateCount = 2
  /\ renderCount = 1 /\ html # Render(text) /\ html \in {Render(t) : t \in Texts}

====
